---------------------------- MODULE Spec2Model ----------------------------
(***************************************************************************)
(* RDB2Neo4j ETL (src/ETL/etl_script.py): extraction of the relational     *)
(* catalog, inference of the node / relationship mapping, and the batched  *)
(* import of the mapped rows into the graph store.                         *)
(*                                                                         *)
(* Python values are represented as follows.                               *)
(*   None / a value      an optional is a sequence: <<>> is None, <<x>>    *)
(*                       is x (so that None never equals a name)           *)
(*   str                 a TLA+ string                                     *)
(*   list                a sequence                                        *)
(*   dict                a function, or a record when the keys are fixed   *)
(*   a database value    a record [type, val]; val is the value's text     *)
(***************************************************************************)
EXTENDS Integers, Sequences, FiniteSets, TLC

VARIABLES
    pc,           \* position of the running script
    db,           \* the relational source: catalog and table contents
    schema_data,  \* the module-level schema_data (extract_relational_schema)
    config,       \* the contents of config.json
    batch_size,   \* Neo4jImporter.batch_size
    graph,        \* the target graph store: nodes and relationships
    imp,          \* the local variables of import_data
    writes,       \* every query handed to neo4j_graph.run, in order
    printed,      \* the diagnostics the script printed, in order
    faults,       \* how many batches the graph store has rejected
    run,          \* which call of import_data is in progress
    first         \* the source rows and the graph when the first call returned

vars == <<pc, db, schema_data, config, batch_size, graph, imp, writes,
          printed, faults, run, first>>

-----------------------------------------------------------------------------
(* Bounds of the model.                                                    *)

MaxFks == 3
MaxRows == 2
MaxBatch == 2
MaxFaults == 1

-----------------------------------------------------------------------------
(* Python values.                                                          *)

None == <<>>
Some(x) == <<x>>
IsNone(o) == o = <<>>
The(o) == o[1]

Range(s) == {s[i] : i \in 1..Len(s)}

\* len(set(s))
DistinctCount(s) == Cardinality(Range(s))

-----------------------------------------------------------------------------
(* str methods used by the script.                                         *)

LowerChars == "abcdefghijklmnopqrstuvwxyz"
UpperChars == "ABCDEFGHIJKLMNOPQRSTUVWXYZ"

CharAt(s, i) == SubSeq(s, i, i)

\* the upper-case letter of each lower-case letter, and the reverse
UpperOf == [c \in {CharAt(LowerChars, i) : i \in 1..Len(LowerChars)} |->
               CharAt(UpperChars, CHOOSE i \in 1..Len(LowerChars) : CharAt(LowerChars, i) = c)]
LowerOf == [c \in {CharAt(UpperChars, i) : i \in 1..Len(UpperChars)} |->
               CharAt(LowerChars, CHOOSE i \in 1..Len(UpperChars) : CharAt(UpperChars, i) = c)]

RECURSIVE MapChars(_, _)
\* every character that map has replaced by its image, the others kept
MapChars(s, map) ==
    IF Len(s) = 0 THEN ""
    ELSE (IF CharAt(s, 1) \in DOMAIN map THEN map[CharAt(s, 1)] ELSE CharAt(s, 1))
             \o MapChars(SubSeq(s, 2, Len(s)), map)

\* str.upper()
Upper(s) == MapChars(s, UpperOf)

\* str.lower()
Lower(s) == MapChars(s, LowerOf)

\* str.capitalize(): the first character upper case, the rest lower case
Capitalize(s) ==
    IF Len(s) = 0 THEN ""
    ELSE Upper(CharAt(s, 1)) \o Lower(SubSeq(s, 2, Len(s)))

RECURSIVE SplitFrom(_, _, _, _)
\* str.split(sep) for a one-character sep: the pieces of s between the
\* separators, empty pieces included; `start` is where the current piece began
SplitFrom(s, sep, start, i) ==
    IF i > Len(s) THEN <<SubSeq(s, start, Len(s))>>
    ELSE IF CharAt(s, i) = sep
         THEN <<SubSeq(s, start, i - 1)>> \o SplitFrom(s, sep, i + 1, i + 1)
         ELSE SplitFrom(s, sep, start, i + 1)

Split(s, sep) == SplitFrom(s, sep, 1, 1)

RECURSIVE Join(_)
\* ''.join(words)
Join(words) == IF words = <<>> THEN "" ELSE Head(words) \o Join(Tail(words))


-----------------------------------------------------------------------------
(* generate_initial_config: the mapping inferred from a schema.            *)
(* A schema is [tables, foreign_keys]; a table is [name, columns,          *)
(* primary_key]; a foreign key is [from_table, from_column, to_table,      *)
(* to_column].                                                             *)

\* [fk for fk in schema['foreign_keys'] if fk['from_table'] == name]
FksFrom(schema, name) ==
    LET From(fk) == fk.from_table = name IN
    SelectSeq(schema.foreign_keys, From)

\* [fk['from_column'] for fk in ... if fk['from_table'] == table['name']]
FkColumns(schema, name) ==
    LET fks == FksFrom(schema, name) IN
    [i \in 1..Len(fks) |-> fks[i].from_column]

\* the test of line 119 without its set(): a column counts once for each of
\* its foreign keys
CountsEveryFk(schema, table) ==
    /\ Len(table.columns) = Len(FkColumns(schema, table.name))
    /\ IsNone(table.primary_key)

\* the test of line 119: as many columns as distinct foreign-key columns,
\* and no primary key
IsPureLinkTable(schema, table) ==
    /\ Len(table.columns) = DistinctCount(FkColumns(schema, table.name))
    /\ IsNone(table.primary_key)

\* ''.join(word.capitalize() for word in name.split('_'))
Label(name) ==
    LET words == Split(name, "_") IN
    Join([i \in 1..Len(words) |-> Capitalize(words[i])])

\* {col: col for col in cols}
IdentityMap(cols) == [c \in Range(cols) |-> c]

NodeMappingOf(table) ==
    [source_table |-> table.name,
     label        |-> Label(table.name),
     properties   |-> IdentityMap(table.columns),
     primary_key  |-> table.primary_key]

RECURSIVE NodeMappings(_, _)
\* the loop of lines 116-129 over tables, from the first
NodeMappings(schema, tables) ==
    IF tables = <<>> THEN <<>>
    ELSE IF IsPureLinkTable(schema, Head(tables))
         THEN NodeMappings(schema, Tail(tables))
         ELSE <<NodeMappingOf(Head(tables))>> \o NodeMappings(schema, Tail(tables))

\* any(node['source_table'] == name for node in nodes)
IsEntity(nodes, name) == \E i \in 1..Len(nodes) : nodes[i].source_table = name

RelType(to_table) == "HAS_" \o Upper(to_table)

\* next((t['columns'] for t in schema['tables'] if t['name'] == name), [])
ColumnsOf(schema, name) ==
    LET Named(t) == t.name = name
        hits == SelectSeq(schema.tables, Named) IN
    IF hits = <<>> THEN <<>> ELSE hits[1].columns

\* lines 139-151: the relationship of a link table, from its first two
\* foreign keys
LinkRel(schema, fk) ==
    LET related_fks == FksFrom(schema, fk.from_table)
        fk1 == related_fks[1]
        fk2 == related_fks[2]
        link_table_cols == ColumnsOf(schema, fk.from_table)
        link_fk_cols == Range(FkColumns(schema, fk.from_table))
        NotFk(col) == col \notin link_fk_cols
        prop_cols == SelectSeq(link_table_cols, NotFk) IN
    [source_link_table |-> fk.from_table,
     type              |-> RelType(fk2.to_table),
     from_node_table   |-> fk1.to_table,
     to_node_table     |-> fk2.to_table,
     properties        |-> IdentityMap(prop_cols)]

\* lines 155-162
DirectRel(fk) ==
    [source_foreign_key |-> fk.from_table \o "." \o fk.from_column,
     type               |-> RelType(fk.to_table),
     from_node_table    |-> fk.from_table,
     to_node_table      |-> fk.to_table,
     direction          |-> "OUT",
     properties         |-> <<>>]

IsLinkRel(rel) == "source_link_table" \in DOMAIN rel
IsDirectRel(rel) == "source_foreign_key" \in DOMAIN rel

\* a test that never finds the link table among the relationships
NeverSeen(rels, name) == FALSE

\* any(r.get("source_link_table") == name for r in rels)
HasLinkRel(rels, name) ==
    \E i \in 1..Len(rels) : IsLinkRel(rels[i]) /\ rels[i].source_link_table = name

\* one turn of the loop of lines 131-163
AddRelFor(schema, nodes, rels, fk) ==
    IF ~IsEntity(nodes, fk.from_table)
    THEN IF Len(FksFrom(schema, fk.from_table)) >= 2
              /\ ~HasLinkRel(rels, fk.from_table)
         THEN Append(rels, LinkRel(schema, fk))
         ELSE rels
    ELSE Append(rels, DirectRel(fk))

RECURSIVE RelMappings(_, _, _, _)
\* the loop of lines 131-163 over the foreign keys still to visit
RelMappings(schema, nodes, rels, fks) ==
    IF fks = <<>> THEN rels
    ELSE RelMappings(schema, nodes, AddRelFor(schema, nodes, rels, Head(fks)), Tail(fks))

GenerateInitialConfig(schema) ==
    LET nodes == NodeMappings(schema, schema.tables) IN
    [nodes         |-> nodes,
     relationships |-> RelMappings(schema, nodes, <<>>, schema.foreign_keys)]

-----------------------------------------------------------------------------
(* Database values and convert_value_for_neo4j.                            *)

Null == [type |-> "null", val |-> ""]
VInt(text) == [type |-> "int", val |-> text]
VStr(text) == [type |-> "str", val |-> text]
VDecimal(text) == [type |-> "decimal", val |-> text]
VFloat(text) == [type |-> "float", val |-> text]
VDate(text) == [type |-> "date", val |-> text]

RECURSIVE StripZeros(_)
\* the digits of a decimal fraction without its trailing zeros
StripZeros(digits) ==
    IF Len(digits) > 0 /\ CharAt(digits, Len(digits)) = "0"
    THEN StripZeros(SubSeq(digits, 1, Len(digits) - 1))
    ELSE digits

\* the text of float(d) for a decimal's text "i.f": 12.50 is 12.5, 3.00 is 3.0
FloatText(text) ==
    LET parts == Split(text, ".")
        frac == IF Len(parts) >= 2 THEN StripZeros(parts[2]) ELSE "" IN
    parts[1] \o "." \o (IF frac = "" THEN "0" ELSE frac)

convert_value_for_neo4j(value) ==
    IF value.type = "decimal" THEN VFloat(FloatText(value.val))
    ELSE IF value.type = "date" THEN VStr(value.val)
    ELSE value

\* dict.get(key): None when the key is missing
Get(d, key) == IF key \in DOMAIN d THEN d[key] ELSE Null

\* f"{x}" of an optional name: the text None when it is None
Fmt(o) == IF IsNone(o) THEN "None" ELSE The(o)

-----------------------------------------------------------------------------
(* The graph store, as far as the two queries of the importer use it.      *)
(* graph is [nodes, rels]: a node is [label, props], a relationship is     *)
(* [type, from, to, props] with from and to the places of its end nodes in *)
(* graph.nodes. A property that is null is a property the node has not.    *)

EmptyGraph == [nodes |-> <<>>, rels |-> <<>>]

\* n.`key`
Prop(n, key) == Get(n.props, key)

\* the nodes that (n:`label` {`key`: value}) matches; null matches nothing
MatchNodes(nodes, label, key, value) ==
    IF value = Null THEN {}
    ELSE {i \in 1..Len(nodes) : nodes[i].label = label /\ Prop(nodes[i], key) = value}

\* a SET that writes only the keys the node has not yet
KeepsOldValues(props, map) ==
    LET keys == (DOMAIN props \cup DOMAIN map)
        Val(k) == IF k \in DOMAIN props THEN props[k] ELSE map[k] IN
    [k \in {x \in keys : Val(x) # Null} |-> Val(k)]

\* SET n += map: every key of map is written, a null value removes the key
SetPlus(props, map) ==
    LET keys == (DOMAIN props \cup DOMAIN map)
        Val(k) == IF k \in DOMAIN map THEN map[k] ELSE props[k] IN
    [k \in {x \in keys : Val(x) # Null} |-> Val(k)]

\* CREATE (n:`label`) SET n += map, for one map: a node is made each time
CreateNode(nodes, label, id_prop, map) ==
    Append(nodes, [label |-> label,
                   props |-> [k \in {x \in DOMAIN map : map[x] # Null} |-> map[k]]])

\* MERGE (n:`label` {`id_prop`: map.`id_prop`}) SET n += map, for one map
MergeNode(nodes, label, id_prop, map) ==
    LET hits == MatchNodes(nodes, label, id_prop, map[id_prop])
        made == [label |-> label, props |-> (id_prop :> map[id_prop])]
        all  == IF hits = {} THEN Append(nodes, made) ELSE nodes
        set  == IF hits = {} THEN {Len(all)} ELSE hits IN
    [i \in 1..Len(all) |->
        IF i \in set THEN [all[i] EXCEPT !.props = SetPlus(@, map)] ELSE all[i]]

RECURSIVE MergeNodes(_, _, _, _)
\* UNWIND $props AS map MERGE ... SET ...: the maps in order
MergeNodes(nodes, label, id_prop, props) ==
    IF props = <<>> THEN nodes
    ELSE MergeNodes(MergeNode(nodes, label, id_prop, Head(props)),
                    label, id_prop, Tail(props))

\* (a)-[r:`rel_type`]->(b) exists
HasRel(rels, rel_type, a, b) ==
    \E i \in 1..Len(rels) :
        rels[i].type = rel_type /\ rels[i].from = a /\ rels[i].to = b

\* the pairs (a, b) the two MATCH clauses bind for one map
MatchedPairs(nodes, from_label, from_pk, to_label, to_pk, map) ==
    MatchNodes(nodes, from_label, from_pk, map.from_id)
        \X MatchNodes(nodes, to_label, to_pk, map.to_id)

RECURSIVE OverwriteRelPairs(_, _, _, _)
\* MERGE (a)-[r]->(b) SET r = map.props: the properties are written on a
\* relationship that exists as well
OverwriteRelPairs(rels, rel_type, pairs, props) ==
    IF pairs = {} THEN rels
    ELSE LET p == CHOOSE x \in pairs :
                    \A y \in pairs : x[1] < y[1] \/ (x[1] = y[1] /\ x[2] <= y[2])
             next == IF HasRel(rels, rel_type, p[1], p[2])
                     THEN [i \in 1..Len(rels) |->
                              IF /\ rels[i].type = rel_type
                                 /\ rels[i].from = p[1] /\ rels[i].to = p[2]
                              THEN [rels[i] EXCEPT !.props = props] ELSE rels[i]]
                     ELSE Append(rels, [type |-> rel_type, from |-> p[1],
                                        to |-> p[2], props |-> props]) IN
         OverwriteRelPairs(next, rel_type, pairs \ {p}, props)

RECURSIVE MergeRelPairs(_, _, _, _)
\* MERGE (a)-[r]->(b) ON CREATE SET r = map.props, for the bound pairs
MergeRelPairs(rels, rel_type, pairs, props) ==
    IF pairs = {} THEN rels
    ELSE LET p == CHOOSE x \in pairs :
                    \A y \in pairs : x[1] < y[1] \/ (x[1] = y[1] /\ x[2] <= y[2])
             next == IF HasRel(rels, rel_type, p[1], p[2]) THEN rels
                     ELSE Append(rels, [type |-> rel_type, from |-> p[1],
                                        to |-> p[2], props |-> props]) IN
         MergeRelPairs(next, rel_type, pairs \ {p}, props)

\* map.props as a property map; a map without props gives no property
PropsOf(map) ==
    IF "props" \in DOMAIN map
    THEN [k \in {x \in DOMAIN map.props : map.props[x] # Null} |-> map.props[k]]
    ELSE <<>>

RECURSIVE MergeEnds(_, _, _, _, _, _, _)
\* UNWIND $data AS map MERGE (a) MERGE (b) MERGE (a)-[r]->(b): an end node
\* that is not there is made
MergeEnds(g, from_label, from_pk, to_label, to_pk, rel_type, data) ==
    IF data = <<>> THEN g
    ELSE LET map == Head(data)
             With(nodes, label, key, value) ==
                 IF MatchNodes(nodes, label, key, value) = {}
                 THEN Append(nodes, [label |-> label,
                                     props |-> IF value = Null THEN <<>>
                                               ELSE (key :> value)])
                 ELSE nodes
             nodes == With(With(g.nodes, from_label, from_pk, map.from_id),
                           to_label, to_pk, map.to_id)
             pairs == MatchedPairs(nodes, from_label, from_pk, to_label, to_pk, map)
             next == [nodes |-> nodes,
                      rels |-> MergeRelPairs(g.rels, rel_type, pairs, PropsOf(map))] IN
         MergeEnds(next, from_label, from_pk, to_label, to_pk, rel_type, Tail(data))

RECURSIVE MergeRels(_, _, _, _, _, _, _)
\* UNWIND $data AS map MATCH (a) MATCH (b) MERGE (a)-[r]->(b) ON CREATE SET
MergeRels(g, from_label, from_pk, to_label, to_pk, rel_type, data) ==
    IF data = <<>> THEN g
    ELSE LET pairs == MatchedPairs(g.nodes, from_label, from_pk,
                                   to_label, to_pk, Head(data))
             next == [g EXCEPT !.rels =
                         MergeRelPairs(@, rel_type, pairs, PropsOf(Head(data)))] IN
         MergeRels(next, from_label, from_pk, to_label, to_pk, rel_type, Tail(data))

\* ON CREATE SET r = map.props runs with map.props null: some map of the
\* batch has no props and creates a relationship. Whether the store then
\* raises or creates the relationship bare depends on the store.
SetsNullProps(g, from_label, from_pk, to_label, to_pk, rel_type, data) ==
    /\ \E i \in 1..Len(data) : "props" \notin DOMAIN data[i]
    /\ Len(MergeRels(g, from_label, from_pk, to_label, to_pk, rel_type, data).rels)
          > Len(g.rels)

-----------------------------------------------------------------------------
(* The relational source. db is [tables, foreign_keys, rows]: a table of   *)
(* the catalog is [name, columns, pk_columns, values], values[c] being the *)
(* values column c may hold; rows[name] is the table's rows in the order a *)
(* SELECT streams them, each row a function from column to value.          *)

Tbl(name, columns, pk_columns, values) ==
    [name |-> name, columns |-> columns, pk_columns |-> pk_columns, values |-> values]

Fk(from_table, from_column, to_table, to_column) ==
    [from_table |-> from_table, from_column |-> from_column,
     to_table |-> to_table, to_column |-> to_column]

TableNamed(tables, name) == CHOOSE t \in Range(tables) : t.name = name

HasTable(tables, name) == \E t \in Range(tables) : t.name = name

\* the rows a table may hold: one value of its domain per column
RowsOf(table) ==
    {r \in [Range(table.columns) -> UNION {table.values[c] : c \in Range(table.columns)}] :
        \A c \in Range(table.columns) : r[c] \in table.values[c]}

\* the primary key holds: no null in a key column, no two rows with one key
KeyHolds(table, rows) ==
    /\ \A i \in 1..Len(rows) : \A c \in Range(table.pk_columns) : rows[i][c] # Null
    /\ table.pk_columns # <<>> =>
          \A i, j \in 1..Len(rows) :
              (\A c \in Range(table.pk_columns) : rows[i][c] = rows[j][c]) => i = j

\* the contents a table may have, up to MaxRows rows
ContentsOf(table) ==
    {rows \in UNION {[1..n -> RowsOf(table)] : n \in 0..MaxRows} : KeyHolds(table, rows)}

\* information_schema.tables, in the catalog's order
CatalogTableNames(d) == [i \in 1..Len(d.tables) |-> d.tables[i].name]

\* lines 61-81: the descriptor extract_relational_schema appends for a table;
\* fetchone() keeps the first column of the primary key
ExtractedTable(table) ==
    [name        |-> table.name,
     columns     |-> table.columns,
     primary_key |-> IF table.pk_columns = <<>> THEN None ELSE Some(table.pk_columns[1])]

\* SELECT * FROM `name`: the rows, or an error when the table is unknown
SelectAll(d, name) ==
    IF HasTable(d.tables, name) THEN Some(d.rows[name]) ELSE None

\* SELECT `c1`, `c2` FROM `name`: the rows cut to the two columns, or an error
\* when the table or a column is unknown
SelectTwo(d, c1, c2, name) ==
    IF /\ HasTable(d.tables, name)
       /\ {c1, c2} \subseteq Range(TableNamed(d.tables, name).columns)
    THEN Some([i \in 1..Len(d.rows[name]) |->
                  [c \in {c1, c2} |-> d.rows[name][i][c]]])
    ELSE None

-----------------------------------------------------------------------------
(* Neo4jImporter: the two batch writes.                                    *)

\* lines 235-238: the property map of a row
NodeProps(properties_map, row) ==
    [prop \in {properties_map[c] : c \in DOMAIN properties_map} |->
        convert_value_for_neo4j(
            Get(row, CHOOSE c \in DOMAIN properties_map : properties_map[c] = prop))]

\* line 330: [p for p in prop_list if p.get(id_prop) is not None]
ValidProps(prop_list, id_prop) ==
    LET Keyed(p) == ~IsNone(id_prop) /\ Get(p, The(id_prop)) # Null IN
    SelectSeq(prop_list, Keyed)

\* what the store may answer to a write: it may reject any batch while
\* fewer than MaxFaults were rejected, and it may reject a batch whose
\* ON CREATE SET gets no property map
Answers(must_accept) ==
    IF faults < MaxFaults \/ ~must_accept THEN {TRUE, FALSE} ELSE {TRUE}

\* _merge_nodes_batch(label, id_prop, prop_list), the store answering ok
MergeNodesBatch(entry, label, id_prop, prop_list, ok) ==
    LET valid_props == ValidProps(prop_list, id_prop) IN
    IF prop_list = <<>> \/ valid_props = <<>>
    THEN ok /\ UNCHANGED <<graph, writes, printed, faults>>
    ELSE /\ ok \in Answers(TRUE)
         /\ writes' = Append(writes,
                [op |-> "nodes", run |-> run, entry |-> entry, label |-> label,
                 rows |-> valid_props, ok |-> ok])
         /\ IF ok
            THEN /\ graph' = [graph EXCEPT
                        !.nodes = MergeNodes(@, label, The(id_prop), valid_props)]
                 /\ UNCHANGED <<printed, faults>>
            ELSE /\ printed' = Append(printed, [msg |-> "node batch failed", of |-> label])
                 /\ faults' = faults + 1
                 /\ UNCHANGED graph

\* _merge_rels_batch(from_label, from_pk, to_label, to_pk, rel_type,
\* data_list), the store answering ok
MergeRelsBatch(entry, from_label, from_pk, to_label, to_pk, rel_type, data_list, ok) ==
    IF data_list = <<>>
    THEN ok /\ UNCHANGED <<graph, writes, printed, faults>>
    ELSE /\ ok \in Answers(~SetsNullProps(graph, from_label, Fmt(from_pk), to_label,
                                          Fmt(to_pk), rel_type, data_list))
         /\ writes' = Append(writes,
                [op |-> "rels", run |-> run, entry |-> entry, label |-> rel_type,
                 rows |-> data_list, ok |-> ok])
         /\ IF ok
            THEN /\ graph' = MergeRels(graph, from_label, Fmt(from_pk), to_label,
                                       Fmt(to_pk), rel_type, data_list)
                 /\ UNCHANGED <<printed, faults>>
            ELSE /\ printed' = Append(printed, [msg |-> "rel batch failed", of |-> rel_type])
                 /\ faults' = faults + 1
                 /\ UNCHANGED graph

-----------------------------------------------------------------------------
(* import_data. imp holds its locals: idx is the place in the list of the  *)
(* phase (nodes, then relationships), streaming says whether the loop over *)
(* the cursor's rows is running, cursor the rows still to come, list the   *)
(* node_props_list or rel_data_list.                                       *)

\* the two loops the other way round
RelsFirst == <<"rels", "nodes">>

\* lines 222 and 252: the node loop comes first, the relationship loop second
PhaseOrder == <<"nodes", "rels">>

\* where the script is after the loop of a phase
AfterPhase(phase) == IF phase = PhaseOrder[1] THEN PhaseOrder[2] ELSE "done"

\* a list that keeps the rows of a rejected batch for the next write
KeepRejected(list, ok) == IF ok THEN <<>> ELSE list

\* lines 244, 286 and 316: the list is emptied after the batch write,
\* whatever the store answered
AfterFlush(list, ok) == <<>>

NoFirst == [rows |-> <<>>, graph |-> EmptyGraph]

\* first, once the loop of a phase is over: set when the first call returns
FirstAfter(phase) ==
    IF AfterPhase(phase) = "done" /\ run = 1
    THEN [rows |-> db.rows, graph |-> graph]
    ELSE first

Idle(idx) == [idx |-> idx, streaming |-> FALSE, cursor |-> <<>>, list |-> <<>>]

\* next((n for n in schema_config['nodes'] if n['source_table'] == name), None)
NodeConfigOf(cfg, name) ==
    LET Named(n) == n.source_table = name
        hits == SelectSeq(cfg.nodes, Named) IN
    IF hits = <<>> THEN None ELSE Some(hits[1])

\* lines 293-294: the first foreign key of the link table to the node table
LinkFkCol(schema, link_table_name, node_table) ==
    LET Joins(fk) == fk.from_table = link_table_name /\ fk.to_table = node_table
        hits == SelectSeq(schema.foreign_keys, Joins) IN
    IF hits = <<>> THEN None ELSE Some(hits[1].from_column)

\* lines 271-273
SourceTableName(rel_def) == Split(rel_def.source_foreign_key, ".")[1]
FkColumn(rel_def) == Split(rel_def.source_foreign_key, ".")[2]

\* the entries of rel_data_list: lines 280-283 and 305-313
DirectRelData(row, from_pk, fk_column) ==
    [from_id |-> IF IsNone(from_pk) THEN Null ELSE Get(row, The(from_pk)),
     to_id   |-> Get(row, fk_column)]

LinkRelData(row, from_fk_col, to_fk_col, properties) ==
    [from_id |-> Get(row, from_fk_col),
     to_id   |-> Get(row, to_fk_col),
     props   |-> NodeProps(properties, row)]

\* the rel_def being imported, and what lines 259-269 resolve for it
RelDef == config.relationships[imp.idx]
FromNode == NodeConfigOf(config, RelDef.from_node_table)
ToNode == NodeConfigOf(config, RelDef.to_node_table)

RelData(row) ==
    IF IsDirectRel(RelDef)
    THEN DirectRelData(row, The(FromNode).primary_key, FkColumn(RelDef))
    ELSE LinkRelData(row,
             The(LinkFkCol(schema_data, RelDef.source_link_table, RelDef.from_node_table)),
             The(LinkFkCol(schema_data, RelDef.source_link_table, RelDef.to_node_table)),
             RelDef.properties)

\* the call of _merge_rels_batch of lines 285, 288, 315 and 318
FlushRels(data_list, ok) ==
    MergeRelsBatch(imp.idx, The(FromNode).label, The(FromNode).primary_key,
                   The(ToNode).label, The(ToNode).primary_key, RelDef.type,
                   data_list, ok)

\* a test that lets the list grow one row past batch_size
BatchOverfull(list) == Len(list) > batch_size

\* lines 242, 284 and 314: len(list) >= self.batch_size
BatchFull(list) == Len(list) >= batch_size

\* lines 224-231: the next node_def; its SELECT fails on an unknown table
NodesSelect ==
    /\ pc = "nodes" /\ ~imp.streaming /\ imp.idx <= Len(config.nodes)
    /\ LET rows == SelectAll(db, config.nodes[imp.idx].source_table) IN
       IF IsNone(rows)
       THEN pc' = "crashed" /\ UNCHANGED imp
       ELSE /\ imp' = [imp EXCEPT !.streaming = TRUE, !.cursor = The(rows), !.list = <<>>]
            /\ UNCHANGED pc
    /\ UNCHANGED <<db, schema_data, config, batch_size, graph, writes, printed, faults, run, first>>

\* lines 234-244: one row of the cursor
NodesRow ==
    /\ pc = "nodes" /\ imp.streaming /\ imp.cursor # <<>>
    /\ LET node_def == config.nodes[imp.idx]
           node_props_list ==
               Append(imp.list, NodeProps(node_def.properties, Head(imp.cursor))) IN
       IF BatchFull(node_props_list)
       THEN \E ok \in BOOLEAN :
                /\ MergeNodesBatch(imp.idx, node_def.label, node_def.primary_key,
                                   node_props_list, ok)
                /\ imp' = [imp EXCEPT !.cursor = Tail(@),
                                      !.list = AfterFlush(node_props_list, ok)]
       ELSE /\ imp' = [imp EXCEPT !.cursor = Tail(@), !.list = node_props_list]
            /\ UNCHANGED <<graph, writes, printed, faults>>
    /\ UNCHANGED <<pc, db, schema_data, config, batch_size, run, first>>

\* lines 247-250: the cursor is exhausted
NodesEnd ==
    /\ pc = "nodes" /\ imp.streaming /\ imp.cursor = <<>>
    /\ LET node_def == config.nodes[imp.idx] IN
       \E ok \in BOOLEAN :
           MergeNodesBatch(imp.idx, node_def.label, node_def.primary_key, imp.list, ok)
    /\ imp' = Idle(imp.idx + 1)
    /\ UNCHANGED <<pc, db, schema_data, config, batch_size, run, first>>

\* line 253: the node loop is over
NodesDone ==
    /\ pc = "nodes" /\ ~imp.streaming /\ imp.idx > Len(config.nodes)
    /\ pc' = AfterPhase("nodes")
    /\ imp' = Idle(1)
    /\ first' = FirstAfter("nodes")
    /\ UNCHANGED <<db, schema_data, config, batch_size, graph, writes, printed, faults, run>>

\* a break in place of the continue of line 264: the relationship loop ends
\* at a rel_def with an end that no node mapping has
SkipAndStop ==
    /\ pc = "rels" /\ ~imp.streaming /\ imp.idx <= Len(config.relationships)
    /\ IsNone(FromNode) \/ IsNone(ToNode)
    /\ printed' = Append(printed, [msg |-> "no node config", of |-> RelDef.type])
    /\ imp' = Idle(Len(config.relationships) + 1)
    /\ UNCHANGED <<pc, db, schema_data, config, batch_size, graph, writes, faults, run, first>>

\* lines 254-264: a rel_def with an end that no node mapping has
RelsSkipUnresolved ==
    /\ pc = "rels" /\ ~imp.streaming /\ imp.idx <= Len(config.relationships)
    /\ IsNone(FromNode) \/ IsNone(ToNode)
    /\ printed' = Append(printed, [msg |-> "no node config", of |-> RelDef.type])
    /\ imp' = Idle(imp.idx + 1)
    /\ UNCHANGED <<pc, db, schema_data, config, batch_size, graph, writes, faults, run, first>>

\* lines 271-278: a direct rel_def; its SELECT fails on an unknown column
RelsSelectDirect ==
    /\ pc = "rels" /\ ~imp.streaming /\ imp.idx <= Len(config.relationships)
    /\ ~IsNone(FromNode) /\ ~IsNone(ToNode)
    /\ IsDirectRel(RelDef)
    /\ LET rows == SelectTwo(db, Fmt(The(FromNode).primary_key), FkColumn(RelDef),
                             SourceTableName(RelDef)) IN
       IF IsNone(rows)
       THEN pc' = "crashed" /\ UNCHANGED imp
       ELSE /\ imp' = [imp EXCEPT !.streaming = TRUE, !.cursor = The(rows), !.list = <<>>]
            /\ UNCHANGED pc
    /\ UNCHANGED <<db, schema_data, config, batch_size, graph, writes, printed, faults, run, first>>

\* lines 290-303: a link-table rel_def
RelsSelectLink ==
    /\ pc = "rels" /\ ~imp.streaming /\ imp.idx <= Len(config.relationships)
    /\ ~IsNone(FromNode) /\ ~IsNone(ToNode)
    /\ ~IsDirectRel(RelDef) /\ IsLinkRel(RelDef)
    /\ LET link_table_name == RelDef.source_link_table
           from_fk_col == LinkFkCol(schema_data, link_table_name, RelDef.from_node_table)
           to_fk_col == LinkFkCol(schema_data, link_table_name, RelDef.to_node_table)
           rows == SelectAll(db, link_table_name) IN
       IF IsNone(from_fk_col) \/ IsNone(to_fk_col)
       THEN /\ printed' = Append(printed, [msg |-> "no link fk column", of |-> RelDef.type])
            /\ imp' = Idle(imp.idx + 1)
            /\ UNCHANGED pc
       ELSE IF IsNone(rows)
       THEN pc' = "crashed" /\ UNCHANGED <<imp, printed>>
       ELSE /\ imp' = [imp EXCEPT !.streaming = TRUE, !.cursor = The(rows), !.list = <<>>]
            /\ UNCHANGED <<pc, printed>>
    /\ UNCHANGED <<db, schema_data, config, batch_size, graph, writes, faults, run, first>>

\* lines 279-286 and 304-316: one row of the cursor
RelsRow ==
    /\ pc = "rels" /\ imp.streaming /\ imp.cursor # <<>>
    /\ LET rel_data_list == Append(imp.list, RelData(Head(imp.cursor))) IN
       IF BatchFull(rel_data_list)
       THEN \E ok \in BOOLEAN :
                /\ FlushRels(rel_data_list, ok)
                /\ imp' = [imp EXCEPT !.cursor = Tail(@),
                                      !.list = AfterFlush(rel_data_list, ok)]
       ELSE /\ imp' = [imp EXCEPT !.cursor = Tail(@), !.list = rel_data_list]
            /\ UNCHANGED <<graph, writes, printed, faults>>
    /\ UNCHANGED <<pc, db, schema_data, config, batch_size, run, first>>

\* lines 287-288 and 317-318: the cursor is exhausted
RelsEnd ==
    /\ pc = "rels" /\ imp.streaming /\ imp.cursor = <<>>
    /\ \E ok \in BOOLEAN : FlushRels(imp.list, ok)
    /\ imp' = Idle(imp.idx + 1)
    /\ UNCHANGED <<pc, db, schema_data, config, batch_size, run, first>>

\* lines 320-322: the relationship loop is over
RelsDone ==
    /\ pc = "rels" /\ ~imp.streaming /\ imp.idx > Len(config.relationships)
    /\ pc' = AfterPhase("rels")
    /\ imp' = Idle(1)
    /\ first' = FirstAfter("rels")
    /\ UNCHANGED <<db, schema_data, config, batch_size, graph, writes, printed,
                   faults, run>>

-----------------------------------------------------------------------------
(* The script: extract_relational_schema, generate_initial_config, the     *)
(* operator's pause, Neo4jImporter.connect and import_data.                *)

EmptySchema == [tables |-> <<>>, foreign_keys |-> <<>>]

\* lines 21-40 and 47-48: the connection to the source; sys.exit(1) without
ConnectSource ==
    /\ pc = "start"
    /\ \E connected \in BOOLEAN : pc' = IF connected THEN "list_tables" ELSE "exit"
    /\ UNCHANGED <<db, schema_data, config, batch_size, graph, imp, writes, printed,
                   faults, run, first>>

\* lines 57-58: the names of the tables
ListTables ==
    /\ pc = "list_tables"
    /\ pc' = "read_table"
    /\ UNCHANGED <<db, schema_data, config, batch_size, graph, imp, writes, printed,
                   faults, run, first>>

\* lines 60-81: the columns and the primary key of the next table
ReadTable ==
    /\ pc = "read_table"
    /\ Len(schema_data.tables) < Len(db.tables)
    /\ schema_data' = [schema_data EXCEPT
           !.tables = Append(@, ExtractedTable(db.tables[Len(schema_data.tables) + 1]))]
    /\ UNCHANGED <<pc, db, config, batch_size, graph, imp, writes, printed, faults, run, first>>

\* lines 83-94: the foreign keys, after the last table
ReadForeignKeys ==
    /\ pc = "read_table"
    /\ Len(schema_data.tables) = Len(db.tables)
    /\ schema_data' = [schema_data EXCEPT !.foreign_keys = db.foreign_keys]
    /\ pc' = "extracted"
    /\ UNCHANGED <<db, config, batch_size, graph, imp, writes, printed, faults, run, first>>

\* lines 96-104: a catalog query raises; the handler prints the error and
\* the function returns the schema as far as it was filled
CatalogQueryFails ==
    /\ pc \in {"list_tables", "read_table"}
    /\ printed' = Append(printed, [msg |-> "extraction failed", of |-> ""])
    /\ pc' = "extracted"
    /\ UNCHANGED <<db, schema_data, config, batch_size, graph, imp, writes, faults, run, first>>

\* the script without the input() of line 371: the importer is made as soon
\* as the config is generated
GenerateNoPause ==
    /\ pc = "extracted"
    /\ IF schema_data.tables = <<>>
       THEN /\ pc' = "exit"
            /\ printed' = Append(printed, [msg |-> "no tables", of |-> ""])
            /\ UNCHANGED config
       ELSE /\ pc' = "connect"
            /\ config' = GenerateInitialConfig(schema_data)
            /\ UNCHANGED printed
    /\ UNCHANGED <<db, schema_data, batch_size, graph, imp, writes, faults, run, first>>

\* lines 364-370: no table ends the script; otherwise the config is generated
Generate ==
    /\ pc = "extracted"
    /\ IF schema_data.tables = <<>>
       THEN /\ pc' = "exit"
            /\ printed' = Append(printed, [msg |-> "no tables", of |-> ""])
            /\ UNCHANGED config
       ELSE /\ pc' = "confirm"
            /\ config' = GenerateInitialConfig(schema_data)
            /\ UNCHANGED printed
    /\ UNCHANGED <<db, schema_data, batch_size, graph, imp, writes, faults, run, first>>

\* what the operator may have done to config.json during the pause: nothing,
\* or given a node mapping that has no primary_key one of its properties, or
\* given a link-table relationship the columns of its table as properties
OperatorEdits(cfg) ==
    {cfg}
    \cup UNION {{[cfg EXCEPT !.nodes[i].primary_key = Some(cfg.nodes[i].properties[c])] :
                    c \in DOMAIN cfg.nodes[i].properties} :
                i \in {j \in 1..Len(cfg.nodes) : IsNone(cfg.nodes[j].primary_key)}}
    \cup {[cfg EXCEPT !.relationships[i].properties =
                IdentityMap(ColumnsOf(schema_data, cfg.relationships[i].source_link_table))] :
             i \in {j \in 1..Len(cfg.relationships) : IsLinkRel(cfg.relationships[j])}}

\* line 371: input() returns
Confirm ==
    /\ pc = "confirm"
    /\ \E edited \in OperatorEdits(config) : config' = edited
    /\ pc' = "connect"
    /\ UNCHANGED <<db, schema_data, batch_size, graph, imp, writes, printed, faults, run, first>>

\* lines 374-376, 188-204 and 208-220: the importer is made and connects;
\* import_data starts when it did
Connect ==
    /\ pc = "connect"
    /\ \E size \in 1..MaxBatch : batch_size' = size
    /\ \E connected \in BOOLEAN :
          IF connected
          THEN pc' = PhaseOrder[1] /\ imp' = Idle(1) /\ run' = 1
          ELSE pc' = "exit" /\ UNCHANGED <<imp, run, first>>
    /\ UNCHANGED <<db, schema_data, config, graph, writes, printed, faults, first>>

\* import_data is called once more, on the same config and the same store
RunAgain ==
    /\ pc = "done" /\ run = 1
    /\ run' = 2
    /\ pc' = PhaseOrder[1]
    /\ imp' = Idle(1)
    /\ UNCHANGED <<db, schema_data, config, batch_size, graph, writes, printed, faults,
                   first>>

\* the columns of a table that are in no primary key and no foreign key
PlainColumns(d, table) ==
    Range(table.columns)
        \ (Range(table.pk_columns) \cup Range(FkColumns(d, table.name)))

\* the rows of a table with one value of one row changed
Updates(d, table, rows) ==
    {[rows EXCEPT ![u[1]][u[2]] = u[3]] :
        u \in {x \in (1..Len(rows)) \X PlainColumns(d, table)
                        \X UNION {table.values[c] : c \in Range(table.columns)} :
                  x[3] \in table.values[x[2]]}} \ {rows}

\* between the two calls somebody updates a value of the source that is in
\* no primary key and no foreign key
UpdateSource ==
    /\ pc = "done" /\ run = 1 /\ db.rows = first.rows
    /\ \E t \in Range(db.tables) :
          \E rows \in Updates(db, t, db.rows[t.name]) :
              db' = [db EXCEPT !.rows[t.name] = rows]
    /\ UNCHANGED <<pc, schema_data, config, batch_size, graph, imp, writes, printed,
                   faults, run, first>>

-----------------------------------------------------------------------------
(* The databases the script is run on.                                     *)

One == VInt("1")
Two == VInt("2")

\* company, person and the link table founded_by between them
Founders ==
    [tables |-> <<
        Tbl("company", <<"id", "capital">>, <<"id">>,
            ("id" :> {One, Two}) @@ ("capital" :> {VDecimal("12.50")})),
        Tbl("person", <<"id", "born">>, <<"id">>,
            ("id" :> {One}) @@ ("born" :> {VDate("2024-01-05")})),
        Tbl("founded_by", <<"company_id", "person_id">>, <<>>,
            ("company_id" :> {One, Two}) @@ ("person_id" :> {One}))>>,
     foreign_keys |-> <<
        Fk("founded_by", "company_id", "company", "id"),
        Fk("founded_by", "person_id", "person", "id")>>]

\* person and a link table whose two foreign keys both point at person
Friends ==
    [tables |-> <<
        Tbl("person", <<"id", "name">>, <<"id">>,
            ("id" :> {One, Two}) @@ ("name" :> {VStr("ann")})),
        Tbl("knows", <<"a", "b">>, <<>>,
            ("a" :> {One}) @@ ("b" :> {One, Two}))>>,
     foreign_keys |-> <<
        Fk("knows", "a", "person", "id"),
        Fk("knows", "b", "person", "id")>>]

\* staff with a foreign key to a table of another database and one to itself
Staff ==
    [tables |-> <<
        Tbl("staff", <<"id", "boss", "site">>, <<"id">>,
            ("id" :> {One, Two}) @@ ("boss" :> {Null, One}) @@ ("site" :> {One}))>>,
     foreign_keys |-> <<
        Fk("staff", "site", "site", "id"),
        Fk("staff", "boss", "staff", "id")>>]

\* dept has no primary key and is no link table; it points at itself
Depts ==
    [tables |-> <<
        Tbl("dept", <<"code", "parent">>, <<>>,
            ("code" :> {Null, One}) @@ ("parent" :> {One}))>>,
     foreign_keys |-> <<
        Fk("dept", "parent", "dept", "code")>>]

\* office has no primary key and no foreign key; clerk points at it
Clerks ==
    [tables |-> <<
        Tbl("office", <<"code">>, <<>>, ("code" :> {One})),
        Tbl("clerk", <<"id", "office_code">>, <<"id">>,
            ("id" :> {One}) @@ ("office_code" :> {One}))>>,
     foreign_keys |-> <<
        Fk("clerk", "office_code", "office", "code")>>]

\* a table whose primary key has two columns
Orders ==
    [tables |-> <<
        Tbl("order_line", <<"order_id", "line_no", "qty">>, <<"order_id", "line_no">>,
            ("order_id" :> {One}) @@ ("line_no" :> {One, Two})
                @@ ("qty" :> {VDecimal("12.50"), VDecimal("3.00")}))>>,
     foreign_keys |-> <<>>]

Catalogs == {Founders, Friends, Staff, Depts, Clerks, Orders}

RECURSIVE Contents(_, _)
\* every assignment of contents to the tables of a catalog
Contents(tables, i) ==
    IF i > Len(tables) THEN {<<>>}
    ELSE {(tables[i].name :> rows) @@ rest :
             rows \in ContentsOf(tables[i]), rest \in Contents(tables, i + 1)}

Init ==
    /\ pc = "start"
    /\ \E c \in Catalogs :
          \E rows \in Contents(c.tables, 1) :
              db = [tables |-> c.tables, foreign_keys |-> c.foreign_keys, rows |-> rows]
    /\ schema_data = EmptySchema
    /\ config = [nodes |-> <<>>, relationships |-> <<>>]
    /\ batch_size = 0
    /\ graph = EmptyGraph
    /\ imp = Idle(1)
    /\ writes = <<>>
    /\ printed = <<>>
    /\ faults = 0
    /\ run = 0
    /\ first = NoFirst

\* the script, run once
Next ==
    \/ ConnectSource
    \/ ListTables
    \/ ReadTable
    \/ ReadForeignKeys
    \/ CatalogQueryFails
    \/ Generate
    \/ Confirm
    \/ Connect
    \/ NodesSelect
    \/ NodesRow
    \/ NodesEnd
    \/ NodesDone
    \/ RelsSkipUnresolved
    \/ RelsSelectDirect
    \/ RelsSelectLink
    \/ RelsRow
    \/ RelsEnd
    \/ RelsDone

Spec == Init /\ [][Next]_vars

RECURSIVE ExtractedTables(_)
\* schema["tables"] when no catalog query failed
ExtractedTables(tables) ==
    IF tables = <<>> THEN <<>>
    ELSE <<ExtractedTable(Head(tables))>> \o ExtractedTables(Tail(tables))

\* what extract_relational_schema returns when no catalog query failed
ExtractedSchema(d) ==
    [tables |-> ExtractedTables(d.tables), foreign_keys |-> d.foreign_keys]

\* the script at its pause, the schema extracted whole
InitImport ==
    /\ pc = "confirm"
    /\ \E c \in Catalogs :
          \E rows \in Contents(c.tables, 1) :
              db = [tables |-> c.tables, foreign_keys |-> c.foreign_keys, rows |-> rows]
    /\ schema_data = ExtractedSchema(db)
    /\ config = GenerateInitialConfig(schema_data)
    /\ batch_size = 0
    /\ graph = EmptyGraph
    /\ imp = Idle(1)
    /\ writes = <<>>
    /\ printed = <<>>
    /\ faults = 0
    /\ run = 0
    /\ first = NoFirst

\* the import, and the import run a second time
NextImport ==
    \/ Confirm
    \/ Connect
    \/ NodesSelect
    \/ NodesRow
    \/ NodesEnd
    \/ NodesDone
    \/ RelsSkipUnresolved
    \/ RelsSelectDirect
    \/ RelsSelectLink
    \/ RelsRow
    \/ RelsEnd
    \/ RelsDone
    \/ UpdateSource
    \/ RunAgain

SpecImport == InitImport /\ [][NextImport]_vars

-----------------------------------------------------------------------------
(* generate_initial_config on every catalog of up to two tables, of one or *)
(* two columns each, with up to MaxFks foreign keys between them and to a  *)
(* table of another database.                                              *)

InferTableNames == <<"person", "founded_by">>
InferColumns == {<<"a">>, <<"a", "b">>}
InferKeys == {<<>>, <<"a">>}
InferTargets == {"person", "founded_by", "site"}

NoValues(columns) == [c \in Range(columns) |-> {}]

\* the tables of a catalog: each name absent, or with columns and a key
InferTables ==
    LET Choices(name) ==
            {<<>>} \cup {<<Tbl(name, cols, key, NoValues(cols))>> :
                            cols \in InferColumns, key \in InferKeys} IN
    {one \o two : one \in Choices(InferTableNames[1]), two \in Choices(InferTableNames[2])}

\* the foreign keys a catalog with these tables may hold
InferFkChoices(tables) ==
    UNION {{Fk(t.name, c, target, "a") : c \in Range(t.columns), target \in InferTargets} :
              t \in Range(tables)}

\* the catalog with these tables and foreign keys, every table empty
InferDatabase(tables, fks) ==
    [tables |-> tables, foreign_keys |-> fks,
     rows |-> [name \in {t.name : t \in Range(tables)} |-> <<>>]]

\* extract_relational_schema has returned, no catalog query having failed
InitInfer ==
    /\ pc = "extracted"
    /\ \E tables \in InferTables :
          \E n \in 0..MaxFks :
              \E fks \in [1..n -> InferFkChoices(tables)] :
                  db = InferDatabase(tables, fks)
    /\ schema_data = ExtractedSchema(db)
    /\ config = [nodes |-> <<>>, relationships |-> <<>>]
    /\ batch_size = 0
    /\ graph = EmptyGraph
    /\ imp = Idle(1)
    /\ writes = <<>>
    /\ printed = <<>>
    /\ faults = 0
    /\ run = 0
    /\ first = NoFirst

NextInfer == Generate

SpecInfer == InitInfer /\ [][NextInfer]_vars

-----------------------------------------------------------------------------
(* Properties of generate_initial_config, checked under SpecInfer.         *)

\* the table has no primary key and each of its columns is the from_column
\* of a foreign key of the table
Covered(schema, t) ==
    /\ IsNone(t.primary_key)
    /\ \A c \in Range(t.columns) :
          \E fk \in Range(schema.foreign_keys) :
              fk.from_table = t.name /\ fk.from_column = c

\* how many node mappings the config has for a table
NodeCount(cfg, name) ==
    Cardinality({i \in 1..Len(cfg.nodes) : cfg.nodes[i].source_table = name})

\* C3: once the config is generated, a table of the schema has no NodeMapping
\* if and only if it has no primary key and every column of it is the
\* from_column of one of its foreign keys; every other table has exactly one
\* NodeMapping, and the config holds no NodeMapping besides these.
C3_LinkTableClassification ==
    pc = "confirm" =>
        /\ \A t \in Range(schema_data.tables) :
              NodeCount(config, t.name) = IF Covered(schema_data, t) THEN 0 ELSE 1
        /\ \A i \in 1..Len(config.nodes) :
              \E t \in Range(schema_data.tables) : t.name = config.nodes[i].source_table

\* C3 witness: a table without primary key, its two columns covered by
\* exactly two foreign keys, got no NodeMapping, next to a table that got one.
C3_Witness ==
    /\ pc = "confirm"
    /\ \E t, u \in Range(schema_data.tables) :
          /\ Covered(schema_data, t)
          /\ Len(t.columns) = 2
          /\ Len(FksFrom(schema_data, t.name)) = 2
          /\ NodeCount(config, t.name) = 0
          /\ NodeCount(config, u.name) = 1

\* the table a relationship mapping is read from
RelSource(rel) ==
    IF IsLinkRel(rel) THEN rel.source_link_table ELSE SourceTableName(rel)

\* C6: the generated config has no two NodeMapping entries with one
\* source_table and no two RelationshipMapping entries with one source table
\* and one type.
C6_MappingsUnique ==
    pc = "confirm" =>
        /\ \A i, j \in 1..Len(config.nodes) :
              config.nodes[i].source_table = config.nodes[j].source_table => i = j
        /\ \A i, j \in 1..Len(config.relationships) :
              (/\ RelSource(config.relationships[i]) = RelSource(config.relationships[j])
               /\ config.relationships[i].type = config.relationships[j].type) => i = j

-----------------------------------------------------------------------------
(* Properties of import_data, checked under SpecImport.                    *)

\* the places in writes of the batch writes of a run
WritesOf(r) == {i \in 1..Len(writes) : writes[i].run = r}

\* what the store answered to the batch writes of a run, in order
Answered(r) ==
    LET InRun(w) == w.run = r
        ws == SelectSeq(writes, InRun) IN
    [i \in 1..Len(ws) |-> ws[i].ok]

AllOk(r) == \A i \in WritesOf(r) : writes[i].ok

\* the identifying value of a node under a node mapping
KeyOf(n, node_def) == Prop(n, The(node_def.primary_key))

NoDuplicateNode ==
    \A k \in 1..Len(config.nodes) :
        ~IsNone(config.nodes[k].primary_key) =>
            \A i, j \in 1..Len(graph.nodes) :
                (/\ graph.nodes[i].label = config.nodes[k].label
                 /\ graph.nodes[j].label = config.nodes[k].label
                 /\ KeyOf(graph.nodes[i], config.nodes[k]) # Null
                 /\ KeyOf(graph.nodes[i], config.nodes[k])
                       = KeyOf(graph.nodes[j], config.nodes[k])) => i = j

NoDuplicateRel ==
    \A i, j \in 1..Len(graph.rels) :
        (/\ graph.rels[i].type = graph.rels[j].type
         /\ graph.rels[i].from = graph.rels[j].from
         /\ graph.rels[i].to = graph.rels[j].to) => i = j

\* C1: the store never holds two nodes of one label and key nor two
\* relationships of one type between one pair of nodes, and when import_data
\* has run a second time on the unchanged source, the store answering the
\* batches of the second run as it answered those of the first, the store
\* holds the nodes and relationships it held after the first run.
C1_Idempotent ==
    /\ NoDuplicateNode
    /\ NoDuplicateRel
    /\ (pc = "done" /\ run = 2 /\ db.rows = first.rows /\ Answered(1) = Answered(2))
          => graph = first.graph

\* C1 witness: the second run on the unchanged source is over, it wrote node
\* and relationship batches that the store accepted, and the store holds
\* two nodes and a relationship.
C1_Witness ==
    /\ pc = "done" /\ run = 2 /\ db.rows = first.rows
    /\ AllOk(1) /\ AllOk(2)
    /\ \E i, j \in WritesOf(2) : writes[i].op = "nodes" /\ writes[j].op = "rels"
    /\ Len(graph.nodes) >= 2 /\ Len(graph.rels) >= 1
    /\ graph = first.graph

\* C2: within a run no node batch is written after a relationship batch, and
\* a relationship batch is written only once the node loop is over.
C2_NodesBeforeRels ==
    /\ \A i, j \in 1..Len(writes) :
          (i < j /\ writes[i].run = writes[j].run /\ writes[i].op = "rels")
              => writes[j].op # "nodes"
    /\ (\E i \in WritesOf(run) : writes[i].op = "rels") => pc # "nodes"

\* C2 witness: a run is over in which node batches of two node mappings
\* were written and then a relationship batch.
C2_Witness ==
    /\ pc = "done"
    /\ \E i, j, k \in WritesOf(run) :
          /\ i < j /\ j < k
          /\ writes[i].op = "nodes" /\ writes[j].op = "nodes"
          /\ writes[i].entry # writes[j].entry
          /\ writes[k].op = "rels"

\* the rows of the source as the run r read them
RowsRead(r) ==
    IF r = 1 /\ (run = 2 \/ pc = "done") THEN first.rows ELSE db.rows

\* the foreign-key columns of a link-table mapping: that of its first
\* endpoint and the other one
EndColumns(rel) ==
    LET fks == FksFrom(schema_data, rel.source_link_table) IN
    <<fks[1].from_column, fks[2].from_column>>

\* C4: each entry of a relationship batch of a link-table mapping has as
\* from_id the value a row of the link table has in the foreign-key column of
\* the mapping's first endpoint and as to_id the value that row has in the
\* other foreign-key column; and after a run whose batches were all accepted,
\* each row of the link table whose two referenced nodes exist has exactly
\* one relationship of the mapping's type from the one to the other. This is
\* stated for every link table, both foreign keys referencing one table
\* included.
C4_LinkRowEndpoints ==
    /\ \A i \in 1..Len(writes) :
          LET w == writes[i]
              rel == config.relationships[w.entry] IN
          (w.op = "rels" /\ IsLinkRel(rel)) =>
              \A k \in 1..Len(w.rows) :
                  \E r \in Range(RowsRead(w.run)[rel.source_link_table]) :
                      /\ w.rows[k].from_id = r[EndColumns(rel)[1]]
                      /\ w.rows[k].to_id = r[EndColumns(rel)[2]]
    /\ (pc = "done" /\ AllOk(run)) =>
          \A e \in 1..Len(config.relationships) :
              LET rel == config.relationships[e]
                  from == NodeConfigOf(config, rel.from_node_table)
                  to == NodeConfigOf(config, rel.to_node_table) IN
              (IsLinkRel(rel) /\ ~IsNone(from) /\ ~IsNone(to)) =>
                  \A r \in Range(RowsRead(run)[rel.source_link_table]) :
                      \A a \in MatchNodes(graph.nodes, The(from).label,
                                          Fmt(The(from).primary_key), r[EndColumns(rel)[1]]) :
                          \A b \in MatchNodes(graph.nodes, The(to).label,
                                              Fmt(The(to).primary_key), r[EndColumns(rel)[2]]) :
                              Cardinality({x \in 1..Len(graph.rels) :
                                  /\ graph.rels[x].type = rel.type
                                  /\ graph.rels[x].from = a
                                  /\ graph.rels[x].to = b}) = 1

\* the rows of a table the run r read that have no value in the identifying
\* property of the node mapping
NullKeyRows(r, node_def) ==
    LET rows == RowsRead(r)[node_def.source_table] IN
    {i \in 1..Len(rows) :
        \/ IsNone(node_def.primary_key)
        \/ Get(NodeProps(node_def.properties, rows[i]), The(node_def.primary_key)) = Null}

\* the skips the run has reported for a label
SkipsCounted(label) ==
    Cardinality({i \in 1..Len(printed) :
        printed[i].msg = "null key skipped" /\ printed[i].of = label})

\* C5: no row written in a node batch has a null identifying property, and
\* once the first run is over the rows without identifying value have been
\* counted as skips, one for each.
C5_NullKeySkip ==
    /\ \A i \in 1..Len(writes) :
          writes[i].op = "nodes" =>
              \A k \in 1..Len(writes[i].rows) :
                  Get(writes[i].rows[k],
                      The(config.nodes[writes[i].entry].primary_key)) # Null
    /\ (pc = "done" /\ run = 1) =>
          \A e \in 1..Len(config.nodes) :
              SkipsCounted(config.nodes[e].label)
                  = Cardinality(NullKeyRows(1, config.nodes[e]))

\* C7: no node batch is written for a node mapping without primary_key, and
\* no relationship batch is written for a relationship mapping one of whose
\* end node mappings has no primary_key.
C7_KeylessMappingRejected ==
    \A i \in 1..Len(writes) :
        LET w == writes[i] IN
        /\ w.op = "nodes" => ~IsNone(config.nodes[w.entry].primary_key)
        /\ w.op = "rels" =>
              LET rel == config.relationships[w.entry] IN
              /\ ~IsNone(The(NodeConfigOf(config, rel.from_node_table)).primary_key)
              /\ ~IsNone(The(NodeConfigOf(config, rel.to_node_table)).primary_key)

\* the store after one batch write: a rejected batch leaves it as it was
Committed(g, w) ==
    IF ~w.ok THEN g
    ELSE IF w.op = "nodes"
    THEN [g EXCEPT !.nodes =
             MergeNodes(@, w.label, The(config.nodes[w.entry].primary_key), w.rows)]
    ELSE LET rel == config.relationships[w.entry]
             from == The(NodeConfigOf(config, rel.from_node_table))
             to == The(NodeConfigOf(config, rel.to_node_table)) IN
         MergeRels(g, from.label, Fmt(from.primary_key), to.label,
                   Fmt(to.primary_key), w.label, w.rows)

RECURSIVE CommittedAll(_, _)
\* the store after the batch writes ws in order
CommittedAll(g, ws) ==
    IF ws = <<>> THEN g ELSE CommittedAll(Committed(g, Head(ws)), Tail(ws))

RECURSIVE RowsOfWrites(_)
\* the rows of the batch writes ws, in the order they were sent
RowsOfWrites(ws) ==
    IF ws = <<>> THEN <<>> ELSE Head(ws).rows \o RowsOfWrites(Tail(ws))

\* the rows the current run sent for the entry e of the loop op
Sent(op, e) ==
    LET Mine(w) == w.run = run /\ w.op = op /\ w.entry = e IN
    RowsOfWrites(SelectSeq(writes, Mine))

\* the entry a loop of the current run has just finished, if any
NodeEntriesOver ==
    IF pc = "nodes" /\ ~imp.streaming /\ imp.idx > 1 THEN {imp.idx - 1} ELSE {}

RelEntriesOver ==
    IF pc = "rels" /\ ~imp.streaming /\ imp.idx > 1 THEN {imp.idx - 1} ELSE {}

\* the rows with an identifying value that the table of a node mapping holds
KeyedRows(node_def) ==
    LET rows == RowsRead(run)[node_def.source_table] IN
    ValidProps([i \in 1..Len(rows) |-> NodeProps(node_def.properties, rows[i])],
               node_def.primary_key)

\* how many rows the table of a relationship mapping holds, no row when the
\* mapping is skipped
RelRowCount(rel) ==
    IF IsNone(NodeConfigOf(config, rel.from_node_table))
          \/ IsNone(NodeConfigOf(config, rel.to_node_table))
    THEN 0
    ELSE IF IsDirectRel(rel) THEN Len(RowsRead(run)[SourceTableName(rel)])
    ELSE IF IsNone(LinkFkCol(schema_data, rel.source_link_table, rel.from_node_table))
               \/ IsNone(LinkFkCol(schema_data, rel.source_link_table, rel.to_node_table))
    THEN 0
    ELSE Len(RowsRead(run)[rel.source_link_table])

\* C8: a batch write that the store rejects leaves the store as the accepted
\* batches before it made it; and when a loop has finished a mapping entry, the
\* batches sent for it, accepted or rejected, hold each row of its table once
\* and in the table's order (for a node mapping, the rows with an
\* identifying value): no row of a rejected batch is sent again and no row
\* after a rejected batch is left out.
C8_BatchFailureNonFatal ==
    /\ [][(Len(writes') > Len(writes) /\ ~writes'[Len(writes')].ok)
              => graph' = graph]_vars
    /\ [](/\ \A e \in NodeEntriesOver : Sent("nodes", e) = KeyedRows(config.nodes[e])
          /\ \A e \in RelEntriesOver :
                Len(Sent("rels", e)) = RelRowCount(config.relationships[e]))

\* C8 witness: a run is over in which the store accepted a batch, rejected a
\* later one and accepted, after that, the next batch of the same mapping
\* entry, and the store holds what the two accepted batches wrote.
C8_Witness ==
    /\ pc = "done"
    /\ \E k, i, j \in WritesOf(run) :
          /\ k < i /\ i < j
          /\ writes[k].ok /\ ~writes[i].ok /\ writes[j].ok
          /\ writes[j].op = writes[i].op /\ writes[j].entry = writes[i].entry
          /\ graph # CommittedAll(EmptyGraph, SubSeq(writes, 1, k))
          /\ graph = CommittedAll(EmptyGraph, writes)

\* C10: when a run is over and the store accepted each of its batches, then
\* for each node mapping and each row of its table with an identifying value,
\* the store holds exactly one node of the mapping's label with that value,
\* and each mapped property of that node has the converted value of the last
\* row of the table with that identifying value (no value: no property). The
\* run may be the second one, after values of the source were changed.
C10_LastWriteWins ==
    (pc = "done" /\ AllOk(run)) =>
        \A e \in 1..Len(config.nodes) :
            LET node_def == config.nodes[e]
                rows == KeyedRows(node_def)
                id_prop == The(node_def.primary_key) IN
            \A i \in 1..Len(rows) :
                LET same == {j \in 1..Len(rows) : rows[j][id_prop] = rows[i][id_prop]}
                    last == rows[CHOOSE j \in same : \A x \in same : x <= j]
                    hits == MatchNodes(graph.nodes, node_def.label, id_prop,
                                       rows[i][id_prop]) IN
                /\ Cardinality(hits) = 1
                /\ \A n \in hits : \A p \in DOMAIN last :
                      Prop(graph.nodes[n], p) = last[p]

\* C10 witness: the second run is over, after a value of the source was
\* changed; the store accepted each batch of both runs and holds the nodes it
\* held after the first run, one of them with a changed property.
C10_Witness ==
    /\ pc = "done" /\ run = 2 /\ db.rows # first.rows
    /\ AllOk(1) /\ AllOk(2)
    /\ Len(graph.nodes) = Len(first.graph.nodes)
    /\ \E n \in 1..Len(graph.nodes) :
          /\ graph.nodes[n].label = first.graph.nodes[n].label
          /\ graph.nodes[n].props # first.graph.nodes[n].props

-----------------------------------------------------------------------------
(* Properties of the script, checked under Spec.                           *)

\* C9: when a catalog query of extract_relational_schema has failed, no
\* config is generated and no batch is written to the store.
C9_ExtractionFailureFatal ==
    (\E i \in 1..Len(printed) : printed[i].msg = "extraction failed") =>
        /\ config = [nodes |-> <<>>, relationships |-> <<>>]
        /\ writes = <<>>

\* the end nodes a row of a relationship batch matches in the store
EndsMatched(w, k) ==
    LET rel == config.relationships[w.entry]
        from == The(NodeConfigOf(config, rel.from_node_table))
        to == The(NodeConfigOf(config, rel.to_node_table)) IN
    MatchedPairs(graph.nodes, from.label, Fmt(from.primary_key),
                 to.label, Fmt(to.primary_key), w.rows[k])

\* C11: a step of the import leaves each relationship the store holds as it
\* is, with the type, the end nodes and the properties it has, whatever the
\* rows the step upserts carry; and a relationship the step creates has the
\* properties of a row of the batch the step wrote.
C11_RelPropsCreateOnly ==
    [][/\ Len(graph'.rels) >= Len(graph.rels)
       /\ \A i \in 1..Len(graph.rels) : graph'.rels[i] = graph.rels[i]
       /\ \A i \in (Len(graph.rels) + 1)..Len(graph'.rels) :
             LET w == writes'[Len(writes')] IN
             /\ Len(writes') = Len(writes) + 1 /\ w.op = "rels" /\ w.ok
             /\ \E k \in 1..Len(w.rows) : graph'.rels[i].props = PropsOf(w.rows[k])]_vars

\* C11 witness: the store accepted a relationship batch with a row whose end
\* nodes a relationship of the mapping's type joins already, the row
\* carrying other property values than that relationship, which has kept
\* the values it was created with.
C11_Witness ==
    \E i \in 1..Len(writes) :
        /\ writes[i].op = "rels" /\ writes[i].ok
        /\ \E k \in 1..Len(writes[i].rows) :
              \E p \in EndsMatched(writes[i], k) :
                  \E x \in 1..Len(graph.rels) :
                      /\ graph.rels[x].type = writes[i].label
                      /\ graph.rels[x].from = p[1] /\ graph.rels[x].to = p[2]
                      /\ graph.rels[x].props # PropsOf(writes[i].rows[k])
                      /\ graph.rels[x].props # <<>>

\* the relationship mappings with an end that no node mapping has
Unresolved ==
    {e \in 1..Len(config.relationships) :
        \/ IsNone(NodeConfigOf(config, config.relationships[e].from_node_table))
        \/ IsNone(NodeConfigOf(config, config.relationships[e].to_node_table))}

\* how many times the relationship loops have come past such a mapping
UnresolvedPassed ==
    LET all == Cardinality(Unresolved) IN
    IF pc = "done" THEN run * all
    ELSE IF pc = "rels"
    THEN (run - 1) * all + Cardinality({e \in Unresolved : e < imp.idx})
    ELSE IF pc = "nodes" THEN (run - 1) * all
    ELSE 0

\* C12: no relationship batch is ever written for a relationship mapping
\* with an end that no node mapping has; each time the relationship loop
\* comes past such a mapping it prints one diagnostic; and when the run is
\* over, each relationship mapping after it has had every row of its table
\* sent to the store.
C12_UnresolvedEndpointSkip ==
    /\ \A i \in 1..Len(writes) :
          writes[i].op = "rels" => writes[i].entry \notin Unresolved
    /\ pc # "crashed" =>
          Cardinality({i \in 1..Len(printed) : printed[i].msg = "no node config"})
              = UnresolvedPassed
    /\ pc = "done" =>
          \A e \in Unresolved : \A later \in (e + 1)..Len(config.relationships) :
              Len(Sent("rels", later)) = RelRowCount(config.relationships[later])

\* C12 witness: a run is over whose config has a relationship mapping to a
\* table without node mapping and, after it, a relationship mapping for
\* which a batch was written; the diagnostic was printed.
C12_Witness ==
    /\ pc = "done"
    /\ \E e \in Unresolved :
          /\ \E i \in 1..Len(printed) :
                /\ printed[i].msg = "no node config"
                /\ printed[i].of = config.relationships[e].type
          /\ \E i \in WritesOf(run) :
                writes[i].op = "rels" /\ writes[i].entry > e

\* where the script is before the operator has confirmed
BeforeConfirmation == {"start", "list_tables", "read_table", "extracted", "confirm"}

\* C13: as long as the script has not got past the operator's confirmation,
\* nothing has been written to the store and import_data has not started; the
\* importer connects only from the confirmation, with the config generated
\* from the extracted schema as the operator left it, import_data starts only
\* from the connected importer, and a batch is written only by import_data.
C13_ConfirmationGatesWrites ==
    /\ [](pc \in BeforeConfirmation =>
              writes = <<>> /\ graph = EmptyGraph /\ run = 0)
    /\ [][/\ (pc' = "connect" /\ pc # "connect") =>
                /\ pc = "confirm"
                /\ config' \in OperatorEdits(GenerateInitialConfig(schema_data))
          /\ (pc' \in {"nodes", "rels"}) => pc \in {"connect", "nodes", "rels"}
          /\ writes' # writes => (pc \in {"nodes", "rels"} /\ config' = config)]_vars

\* C13 witness: the operator edited the config and confirmed, and import_data
\* has written a node batch and a relationship batch.
C13_Witness ==
    /\ pc = "done"
    /\ config # GenerateInitialConfig(schema_data)
    /\ \E i, j \in 1..Len(writes) :
          writes[i].op = "nodes" /\ writes[j].op = "rels" /\ writes[i].ok

\* C14: once the store has rejected a batch of a mapping entry, the run
\* writes no further batch of that mapping entry.
C14_FailedBatchAbortsEntry ==
    \A i, j \in 1..Len(writes) :
        (/\ i < j
         /\ writes[i].run = writes[j].run
         /\ writes[i].op = writes[j].op
         /\ writes[i].entry = writes[j].entry) => writes[i].ok

\* the entries import_data makes of the rows of the table of a relationship
\* mapping, in the order of the stream
RelEntriesOf(rel) ==
    LET from == The(NodeConfigOf(config, rel.from_node_table)) IN
    IF IsDirectRel(rel)
    THEN LET rows == The(SelectTwo(db, Fmt(from.primary_key), FkColumn(rel),
                                   SourceTableName(rel))) IN
         [i \in 1..Len(rows) |-> DirectRelData(rows[i], from.primary_key, FkColumn(rel))]
    ELSE LET rows == db.rows[rel.source_link_table] IN
         [i \in 1..Len(rows) |->
             LinkRelData(rows[i],
                 The(LinkFkCol(schema_data, rel.source_link_table, rel.from_node_table)),
                 The(LinkFkCol(schema_data, rel.source_link_table, rel.to_node_table)),
                 rel.properties)]

\* the batch a step has written, if it has written one
Written == IF Len(writes') > Len(writes) THEN <<writes'[Len(writes')]>> ELSE <<>>

\* C15: the list of rows waiting for the batch upsert is always shorter than
\* batch_size; a step that takes a row from the stream either adds it to the
\* list or, the list then holding exactly batch_size rows, hands the list to
\* the batch upsert and empties it; at the end of the stream the rows left in
\* the list are handed over, and nothing is written when none is left; a
\* batch written holds at least one row and at most batch_size rows (of a
\* list of node rows, the rows with an identifying value are written); and
\* when the loop has finished a relationship mapping that
\* was imported, the batches written for it hold each row of the stream once
\* and in the order of the stream.
C15_BatchBoundaries ==
    /\ [](imp.streaming => Len(imp.list) < batch_size)
    /\ [](\A e \in RelEntriesOver :
             RelRowCount(config.relationships[e]) > 0 =>
                 Sent("rels", e) = RelEntriesOf(config.relationships[e]))
    /\ [][/\ \A i \in 1..Len(Written) :
                /\ Len(Written[i].rows) >= 1
                /\ Len(Written[i].rows) <= batch_size
          /\ (imp.streaming /\ imp'.streaming /\ imp' # imp) =>
                LET row == IF pc = "nodes"
                           THEN NodeProps(config.nodes[imp.idx].properties,
                                          Head(imp.cursor))
                           ELSE RelData(Head(imp.cursor))
                    list == Append(imp.list, row) IN
                /\ imp'.cursor = Tail(imp.cursor)
                /\ \/ /\ Len(list) < batch_size
                      /\ imp'.list = list
                      /\ Written = <<>>
                   \/ /\ Len(list) = batch_size
                      /\ imp'.list = <<>>
                      /\ pc = "rels" => (Len(Written) = 1 /\ Written[1].rows = list)
                      /\ pc = "nodes" =>
                            \A i \in 1..Len(Written) :
                                Written[i].rows
                                    = ValidProps(list, config.nodes[imp.idx].primary_key)
          /\ (imp.streaming /\ ~imp'.streaming) =>
                /\ imp.cursor = <<>>
                /\ imp.list = <<>> => Written = <<>>
                /\ pc = "rels" =>
                      (imp.list # <<>> => (Len(Written) = 1 /\ Written[1].rows = imp.list))
                /\ pc = "nodes" =>
                      \A i \in 1..Len(Written) :
                          Written[i].rows
                              = ValidProps(imp.list, config.nodes[imp.idx].primary_key)]_vars

\* C15 witness: a run with batch_size 2 is over in which one mapping entry
\* streamed two rows and had one batch of two rows written, no batch after
\* it, and another mapping entry streamed one row and had it written at the
\* end of the stream.
C15_Witness ==
    /\ pc = "done" /\ run = 1 /\ batch_size = 2
    /\ \E i, j \in 1..Len(writes) :
          /\ Len(writes[i].rows) = 2 /\ Len(writes[j].rows) = 1
          /\ \A k \in 1..Len(writes) :
                (writes[k].op = writes[i].op /\ writes[k].entry = writes[i].entry) => k = i
          /\ \A k \in 1..Len(writes) :
                (writes[k].op = writes[j].op /\ writes[k].entry = writes[j].entry) => k = j
          /\ writes[i].op = "nodes"
          /\ Len(db.rows[config.nodes[writes[i].entry].source_table]) = 2

-----------------------------------------------------------------------------
(* Further properties of generate_initial_config, checked under SpecInfer. *)

\* C16: in the generated config, the from_node_table and the to_node_table
\* of each RelationshipMapping are each the source_table of exactly one
\* NodeMapping.
C16_EndpointsResolve ==
    pc = "confirm" =>
        \A i \in 1..Len(config.relationships) :
            /\ NodeCount(config, config.relationships[i].from_node_table) = 1
            /\ NodeCount(config, config.relationships[i].to_node_table) = 1

\* how many relationship mappings the config has for a link table
LinkRelCount(cfg, name) ==
    Cardinality({i \in 1..Len(cfg.relationships) :
        /\ IsLinkRel(cfg.relationships[i])
        /\ cfg.relationships[i].source_link_table = name})

\* C17: in the generated config, a table without primary key whose columns
\* are all foreign-key columns has exactly one RelationshipMapping with it
\* as source_link_table when it has two or more foreign keys, and none when
\* it has fewer; no other table is the source_link_table of a mapping.
C17_LinkTableDeduplication ==
    pc = "confirm" =>
        /\ \A t \in Range(schema_data.tables) :
              LinkRelCount(config, t.name) =
                  IF Covered(schema_data, t) /\ Len(FksFrom(schema_data, t.name)) >= 2
                  THEN 1 ELSE 0
        /\ \A i \in 1..Len(config.relationships) :
              IsLinkRel(config.relationships[i]) =>
                  \E t \in Range(schema_data.tables) :
                      t.name = config.relationships[i].source_link_table

\* C17 witness: a link table of two columns with three foreign keys, not all
\* to one table, has exactly one RelationshipMapping.
C17_Witness ==
    /\ pc = "confirm"
    /\ \E t \in Range(schema_data.tables) :
          /\ Covered(schema_data, t)
          /\ Len(t.columns) = 2
          /\ Len(FksFrom(schema_data, t.name)) = 3
          /\ \E f, g \in Range(FksFrom(schema_data, t.name)) : f.to_table # g.to_table
          /\ LinkRelCount(config, t.name) = 1

-----------------------------------------------------------------------------
(* Further properties of import_data, checked under SpecImport.            *)

\* C18: a step of the relationship loop leaves the nodes of the store and
\* their properties as they are; and when the store accepts a relationship
\* batch, each row of it whose two end nodes are in the store has its
\* relationship in the store afterwards, whatever the other rows are, and
\* each relationship the batch has made joins the end nodes of a row of it:
\* a row with a null end or an end that is not in the store makes nothing.
C18_RelsLeaveNodes ==
    [][pc = "rels" =>
          /\ graph'.nodes = graph.nodes
          /\ \A i \in 1..Len(Written) :
                LET w == Written[i] IN
                (w.op = "rels" /\ w.ok) =>
                    /\ \A k \in 1..Len(w.rows) : \A p \in EndsMatched(w, k) :
                          HasRel(graph'.rels, w.label, p[1], p[2])
                    /\ \A x \in (Len(graph.rels) + 1)..Len(graph'.rels) :
                          /\ graph'.rels[x].type = w.label
                          /\ \E k \in 1..Len(w.rows) :
                                <<graph'.rels[x].from, graph'.rels[x].to>>
                                    \in EndsMatched(w, k)]_vars

\* C18 witness: the first run is in its relationship loop; the store has
\* accepted a batch with a row one end of which is null or not in the store
\* and a row whose end nodes are in the store; the relationship of the
\* second row is in the store, made by that batch.
C18_Witness ==
    /\ pc = "rels" /\ run = 1
    /\ \E i \in 1..Len(writes) :
          /\ writes[i].op = "rels" /\ writes[i].ok
          /\ \E j, k \in 1..Len(writes[i].rows) :
                /\ EndsMatched(writes[i], j) = {}
                /\ \E p \in EndsMatched(writes[i], k) :
                      HasRel(graph.rels, writes[i].label, p[1], p[2])

=============================================================================
